---- MODULE Spec2Model ----
(***************************************************************************)
(* Model of library.py: the FNV digest, the Hash addressing, the bucket    *)
(* Index with its on-disk format, and the filesystem Dictionary with its   *)
(* class-level index cache.                                                *)
(*                                                                         *)
(* Representation: bytes objects are sequences of 0..255, str objects are  *)
(* TLA+ strings, a filesystem path is a sequence of names (strings).       *)
(***************************************************************************)
EXTENDS Integers, Sequences, FiniteSets, TLC

\* ------------------------------------------------------------------------
\* Bounds of the model
\* ------------------------------------------------------------------------
\* highest value a bucket counter may reach (route is not called beyond it)
MaxCounter == 2
\* number of subdictionary instances that may be created
MaxSubs == 2

\* ------------------------------------------------------------------------
\* Inputs: keys and values are bytes
\* ------------------------------------------------------------------------
\* b'a' and b'\n' hash into the same bucket of RootAddressing, b'P' into another
Key == {<<97>>, <<10>>, <<80>>}

Value == {<<>>, <<118>>}

\* ------------------------------------------------------------------------
\* Generic helpers
\* ------------------------------------------------------------------------
Min(a, b) == IF a < b THEN a ELSE b

ButLast(s) == IF Len(s) = 0 THEN s ELSE SubSeq(s, 1, Len(s) - 1)

Range(s) == {s[i] : i \in 1..Len(s)}

\* python: seq[x:y] for 0 <= x, 0 <= y (indexes beyond the end are clamped)
Slice(s, x, y) == SubSeq(s, Min(x, Len(s)) + 1, Min(y, Len(s)))

\* python: range(a, b, s) for s > 0, as a sequence
PyRange(a, b, s) == [i \in 1..(IF b > a THEN (b - a + s - 1) \div s ELSE 0) |-> a + (i - 1) * s]

IsPrefix(p, q) == Len(p) <= Len(q) /\ SubSeq(q, 1, Len(p)) = p

\* characters and their byte values, for str.encode / bytes.decode / "%s" % x
Chars == <<"0", "1", "2", "3", "4", "5", "6", "7", "8", "9",
           "a", "b", "c", "d", "e", "f", "n", "v", "_", " ", "\n">>
Codes == <<48, 49, 50, 51, 52, 53, 54, 55, 56, 57,
           97, 98, 99, 100, 101, 102, 110, 118, 95, 32, 10>>

Ord(c) == Codes[CHOOSE i \in 1..Len(Chars) : Chars[i] = c]
Chr(b) == Chars[CHOOSE i \in 1..Len(Codes) : Codes[i] = b]

\* str.encode('utf-8') / str.encode('ascii') on the characters above
RECURSIVE encode(_)
encode(s) == IF Len(s) = 0 THEN <<>> ELSE <<Ord(SubSeq(s, 1, 1))>> \o encode(SubSeq(s, 2, Len(s)))

\* bytes.decode('utf-8') / bytes.decode('ascii') on the bytes above
RECURSIVE decode(_)
decode(b) == IF Len(b) = 0 THEN "" ELSE Chr(b[1]) \o decode(Tail(b))

\* str(n) for a non-negative integer
RECURSIVE str(_)
str(n) == IF n < 10 THEN Chars[n + 1] ELSE str(n \div 10) \o Chars[(n % 10) + 1]

\* int(s) / int(s, 10) for a string of decimal digits
RECURSIVE int(_)
int(s) == IF Len(s) = 0 THEN 0
          ELSE 10 * int(SubSeq(s, 1, Len(s) - 1)) + (Ord(SubSeq(s, Len(s), Len(s))) - 48)

\* bytes.split(sep) for a one byte separator
RECURSIVE split(_, _)
split(b, sep) ==
    IF \E i \in 1..Len(b) : b[i] = sep
    THEN LET i == CHOOSE i \in 1..Len(b) : b[i] = sep /\ \A j \in 1..(i - 1) : b[j] # sep
         IN <<SubSeq(b, 1, i - 1)>> \o split(SubSeq(b, i + 1, Len(b)), sep)
    ELSE <<b>>

\* sep.join(parts)
RECURSIVE join(_, _)
join(sep, parts) ==
    IF Len(parts) = 0 THEN <<>>
    ELSE IF Len(parts) = 1 THEN parts[1]
    ELSE parts[1] \o sep \o join(sep, Tail(parts))

\* file.readlines() of a binary file: lines keep their terminator
RECURSIVE readlines(_)
readlines(b) ==
    IF Len(b) = 0 THEN <<>>
    ELSE IF \E i \in 1..Len(b) : b[i] = 10
    THEN LET i == CHOOSE i \in 1..Len(b) : b[i] = 10 /\ \A j \in 1..(i - 1) : b[j] # 10
         IN <<SubSeq(b, 1, i)>> \o readlines(SubSeq(b, i + 1, Len(b)))
    ELSE <<b>>

\* ------------------------------------------------------------------------
\* FNV (library.py 14-37).  The state is kept as 8 little-endian byte
\* limbs, i.e. modulo 2^64 after every step; update masks once at the end,
\* which gives the same low 64 bits.
\* ------------------------------------------------------------------------
RECURSIVE Xor(_, _)
Xor(a, b) == IF a = 0 THEN b
             ELSE IF b = 0 THEN a
             ELSE (((a % 2) + (b % 2)) % 2) + 2 * Xor(a \div 2, b \div 2)

\* I = 0xcbf29ce484222325, least significant byte first
FNV_I == <<37, 35, 34, 132, 228, 156, 242, 203>>

\* s * P modulo 2^64 with P = 0x100000001b3 = 2^40 + 435
RECURSIVE MulP(_, _, _)
MulP(s, i, carry) ==
    IF i > 8 THEN <<>>
    ELSE LET t == s[i] * 435 + (IF i > 5 THEN s[i - 5] ELSE 0) + carry
         IN <<t % 256>> \o MulP(s, i + 1, t \div 256)

RECURSIVE FNV_update(_, _)
FNV_update(s, data) ==
    IF Len(data) = 0 THEN s
    ELSE FNV_update(MulP([s EXCEPT ![1] = Xor(s[1], data[1])], 1, 0), Tail(data))

FNV_compute(data) == FNV_update(FNV_I, data)

\* the 16 hexadecimal digits of the state, most significant first
RECURSIVE Hex16(_, _)
Hex16(s, i) ==
    IF i = 0 THEN ""
    ELSE Chars[(s[i] \div 16) + 1] \o Chars[(s[i] % 16) + 1] \o Hex16(s, i - 1)

RECURSIVE StripZeros(_)
StripZeros(h) == IF Len(h) > 1 /\ SubSeq(h, 1, 1) = "0" THEN StripZeros(SubSeq(h, 2, Len(h))) ELSE h

\* hex(self.state)[2:]
FNV_hexdigest(s) == StripZeros(Hex16(s, 8))

\* ------------------------------------------------------------------------
\* Hash (library.py 39-94).  A Hash is the record of its attributes.
\* ------------------------------------------------------------------------
\* len(FNV.compute(b'').hexdigest())
FNV_length == Len(FNV_hexdigest(FNV_compute(<<>>)))

\* the default of the length parameter (length=None)
None == -1

Hash(algorithm, depth, length) ==
    LET l == IF length = None THEN FNV_length ELSE length
    IN [algorithm |-> algorithm, depth |-> depth, length |-> l,
        step |-> l \div depth, edge |-> l + (l \div depth)]

\* a division that stops at the last whole step
divide_truncated(digest, length, edge, step) ==
    LET xs == PyRange(0, length, step)
        ys == PyRange(step, length + 1, step)
    IN [i \in 1..Min(Len(xs), Len(ys)) |-> Slice(digest, xs[i], ys[i])]

divide(digest, length, edge, step) ==
    LET xs == PyRange(0, length, step)
        ys == PyRange(step, edge, step)
    IN [i \in 1..Min(Len(xs), Len(ys)) |-> Slice(digest, xs[i], ys[i])]

\* hi = self.implementation(key); hi.hexdigest().lower(): the digest has no
\* upper case digit
Hash_digest(h, key) == FNV_hexdigest(FNV_compute(key))

\* the addressing of the Dictionary that Init creates, and the addressing
\* argument of subdictionary (<<>> for None, <<h>> for the Hash h)
RootAddressing == Hash("fnv1a_64", 2, 4)

SubAddressing == {<<>>, <<Hash("fnv1a_64", 1, 2)>>}

\* Hash.__call__ for the addressings and keys above, computed once
Segments ==
    [h \in {RootAddressing} \cup {a[1] : a \in SubAddressing \ {<<>>}}, k \in Key |->
        divide(Hash_digest(h, k), h.length, h.edge, h.step)]

Hash_call(h, key) ==
    IF <<h, key>> \in DOMAIN Segments THEN Segments[h, key]
    ELSE divide(Hash_digest(h, key), h.length, h.edge, h.step)

\* ------------------------------------------------------------------------
\* Python dict with insertion order: a sequence of <<key, value>> pairs
\* ------------------------------------------------------------------------
DictHas(m, k) == \E i \in 1..Len(m) : m[i][1] = k

DictGet(m, k) == m[CHOOSE i \in 1..Len(m) : m[i][1] = k][2]

DictSet(m, k, v) ==
    IF DictHas(m, k)
    THEN [i \in 1..Len(m) |-> IF m[i][1] = k THEN <<k, v>> ELSE m[i]]
    ELSE Append(m, <<k, v>>)

DictPop(m, k) == SelectSeq(m, LAMBDA p : p[1] # k)

DictKeys(m) == [i \in 1..Len(m) |-> m[i][1]]

\* dict(pairs)
RECURSIVE DictFrom(_)
DictFrom(pairs) ==
    IF Len(pairs) = 0 THEN <<>>
    ELSE DictSet(DictFrom(ButLast(pairs)), pairs[Len(pairs)][1], pairs[Len(pairs)][2])

\* ------------------------------------------------------------------------
\* Index (library.py 96-223).  An Index is [counter, _map]; the _state list
\* is written by load only and never read.
\* ------------------------------------------------------------------------
tab == 9

RECURSIVE structure_loop(_, _, _, _)
structure_loop(seq, i, entry, key) ==
    IF i > Len(seq)
    THEN << <<ButLast(key), ButLast(entry)>> >>
    ELSE IF seq[i][1] = tab
    THEN structure_loop(seq, i + 1, entry, key \o Tail(seq[i]))
    ELSE << <<ButLast(key), ButLast(entry)>> >> \o structure_loop(seq, i + 1, seq[i], <<>>)

structure(seq) == IF Len(seq) = 0 THEN <<>> ELSE structure_loop(seq, 2, seq[1], <<>>)

Index_init == [counter |-> 0, _map |-> <<>>]

\* a load that takes the number of entries for the counter
Index_load_counted(lines) ==
    LET load(i) ==
            [counter |-> IF Len(i) = 0 THEN 0 ELSE Len(i) - 1,
             _map |-> DictFrom([n \in 1..(Len(i) - 1) |-> <<i[n + 1][1], decode(i[n + 1][2])>>])]
    IN load(structure(lines))

Index_load(lines) ==
    LET load(i) ==
            [counter |-> IF Len(i) = 0 THEN 0 ELSE int(decode(i[1][2])),
             _map |-> DictFrom([n \in 1..(Len(i) - 1) |-> <<i[n + 1][1], decode(i[n + 1][2])>>])]
    IN load(structure(lines))

\* an indentation of the first line of the key only
indent_first(x) == <<tab>> \o x \o <<10>>

indent(x) == <<tab>> \o join(<<10, tab>>, split(x, 10)) \o <<10>>

RECURSIVE store_entries(_)
store_entries(m) ==
    IF Len(m) = 0 THEN <<>>
    ELSE encode(m[1][2]) \o <<10>> \o indent(m[1][1]) \o store_entries(Tail(m))

\* the bytes passed to write, in order
Index_store(idx) == encode(str(idx.counter)) \o <<10>> \o store_entries(idx._map)

Index_has_key(idx, key) == DictHas(idx._map, key)

Index_getitem(idx, key) == DictGet(idx._map, key)

\* the default filename formatter of Dictionary.route and Dictionary.allocate
filename(c) == str(c)

\* an insert that numbers the entry after the size of the map
Index_insert_reuse(idx, key) ==
    LET c == Len(idx._map) + 1
    IN [idx |-> [counter |-> c, _map |-> DictSet(idx._map, key, filename(c))], r |-> filename(c)]

\* [idx |-> the index afterwards, r |-> the identifier]
Index_insert(idx, key) ==
    LET c == idx.counter + 1
    IN [idx |-> [counter |-> c, _map |-> DictSet(idx._map, key, filename(c))], r |-> filename(c)]

\* an allocate that inserts every key it is given
RECURSIVE Index_allocate_always(_, _)
Index_allocate_always(idx, keys) ==
    IF Len(keys) = 0 THEN [idx |-> idx, r |-> <<>>]
    ELSE LET both(first, others) == [idx |-> others.idx, r |-> <<first.r>> \o others.r]
             then(first) == both(first, Index_allocate_always(first.idx, Tail(keys)))
         IN then(Index_insert(idx, keys[1]))

\* [idx |-> the index afterwards, r |-> the list of identifiers]
RECURSIVE Index_allocate(_, _)
Index_allocate(idx, keys) ==
    IF Len(keys) = 0 THEN [idx |-> idx, r |-> <<>>]
    ELSE LET both(first, others) == [idx |-> others.idx, r |-> <<first.r>> \o others.r]
             then(first) == both(first, Index_allocate(first.idx, Tail(keys)))
         IN then(IF DictHas(idx._map, keys[1])
                 THEN [idx |-> idx, r |-> DictGet(idx._map, keys[1])]
                 ELSE Index_insert(idx, keys[1]))

\* a delete that gives the counter value back
Index_delete_reclaim(idx, key) ==
    [idx |-> [counter |-> idx.counter - 1, _map |-> DictPop(idx._map, key)],
     r |-> DictGet(idx._map, key)]

\* [idx |-> the index afterwards, r |-> the identifier removed]
Index_delete(idx, key) ==
    [idx |-> [idx EXCEPT !._map = DictPop(idx._map, key)], r |-> DictGet(idx._map, key)]

\* ------------------------------------------------------------------------
\* The file system as library.py uses it through files.Path: a function
\* from the paths that exist to [kind, data].  The empty path is the
\* directory that holds the store and always exists.
\* ------------------------------------------------------------------------
DirNode == [kind |-> "directory", data |-> <<>>]

FileNode(data) == [kind |-> "file", data |-> data]

exists(f, p) == p \in DOMAIN f

IsFile(f, p) == exists(f, p) /\ f[p].kind = "file"

IsDir(f, p) == exists(f, p) /\ f[p].kind = "directory"

Prefixes(p) == {SubSeq(p, 1, n) : n \in 0..(Len(p) - 1)}

\* p.init(kind): create the leading directories and the node itself
CanInit(f, p) == \A q \in Prefixes(p) : ~IsFile(f, q)

Path_init(f, p, kind) ==
    IF exists(f, p) THEN f
    ELSE LET new == (Prefixes(p) \cup {p}) \ DOMAIN f
         IN [q \in DOMAIN f \cup new |->
                IF q \in DOMAIN f THEN f[q]
                ELSE IF q = p /\ kind = "file" THEN FileNode(<<>>)
                ELSE DirNode]

\* open(p, 'wb') succeeds when the container is a directory and p is not one
CanWrite(f, p) == IsDir(f, ButLast(p)) /\ ~IsDir(f, p)

\* with p.open('wb') as x: x.write(data)
Path_write(f, p, data) ==
    [q \in DOMAIN f \cup {p} |-> IF q = p THEN FileNode(data) ELSE f[q]]

\* p.void(): remove the node and everything below it
Path_void(f, p) == [q \in {x \in DOMAIN f : ~IsPrefix(p, x)} |-> f[q]]

\* p.subnodes()[0]: the directories directly inside p
subdirectories(f, p) == {q \in DOMAIN f : Len(q) = Len(p) + 1 /\ IsPrefix(p, q) /\ f[q].kind = "directory"}

\* ------------------------------------------------------------------------
\* Dictionary (library.py 225-568).  An instance is [id, addressing,
\* directory]; id stands for id(self), the value of __hash__.  The methods
\* are operators from the state st = [fs, cache] to
\* [fs, cache, exc, value]: exc is "" when the method returns.
\* ------------------------------------------------------------------------
Return(f, c, v) == [fs |-> f, cache |-> c, exc |-> "", value |-> v]

Raise(f, c, e) == [fs |-> f, cache |-> c, exc |-> e, value |-> <<>>]

\* "%s %s %s\n" % (a.algorithm, a.depth, a.length), encoded
hash_data(a) == encode(a.algorithm \o " " \o str(a.depth) \o " " \o str(a.length) \o "\n")

\* Dictionary._init: the file system afterwards
CanDictionary_init(f, d) == CanInit(f, d) /\ ~IsFile(f, d)

Dictionary_init(f, a, d) == Path_write(Path_init(f, d, "directory"), d \o <<"hash">>, hash_data(a))

\* Dictionary.create
Dictionary_create(f, id, addressing, directory) ==
    Return(Dictionary_init(f, addressing, directory), <<>>,
           [id |-> id, addressing |-> addressing, directory |-> directory])

\* str.strip() of the configuration line, then split(' ', 3)
config_fields(data) ==
    LET line == IF Len(data) > 0 /\ data[Len(data)] = 10 THEN ButLast(data) ELSE data
        parts == split(line, 32)
    IN [i \in 1..Len(parts) |-> decode(parts[i])]

\* Dictionary.open: the addressing read from the hash file, exc when it is missing
Dictionary_open(f, directory) ==
    IF ~IsFile(f, directory \o <<"hash">>) THEN [exc |-> "OSError", addressing |-> <<>>]
    ELSE LET c == config_fields(f[directory \o <<"hash">>].data)
             length == IF Len(c) < 3 \/ c[3] = "None" THEN None ELSE int(c[3])
         IN [exc |-> "", addressing |-> Hash(c[1], int(c[2]), length)]

\* functools.lru_cache(32) around _index: the cache is a sequence of
\* [self, route, idx], least recently used first, shared by all instances
maxsize == 32

Cached(c, self, route) == \E i \in 1..Len(c) : c[i].self = self.id /\ c[i].route = route

CachePos(c, self, route) == CHOOSE i \in 1..Len(c) : c[i].self = self.id /\ c[i].route = route

\* Dictionary._index: [cache, exc, idx]
Dictionary_index(f, c, self, route) ==
    LET hit(i) ==
            [cache |-> SubSeq(c, 1, i - 1) \o SubSeq(c, i + 1, Len(c)) \o <<c[i]>>,
             exc |-> "", idx |-> c[i].idx]
        keep(c1, idx) ==
            [cache |-> IF Len(c1) > maxsize THEN Tail(c1) ELSE c1, exc |-> "", idx |-> idx]
        miss(idx) == keep(Append(c, [self |-> self.id, route |-> route, idx |-> idx]), idx)
    IN IF Cached(c, self, route) THEN hit(CachePos(c, self, route))
       ELSE IF ~IsFile(f, route) THEN [cache |-> c, exc |-> "OSError", idx |-> Index_init]
       ELSE miss(Index_load(readlines(f[route].data)))

\* an Index held by the cache is the object the method mutates
CachePut(c, self, route, idx) ==
    [i \in 1..Len(c) |-> IF c[i].self = self.id /\ c[i].route = route
                         THEN [c[i] EXCEPT !.idx = idx] ELSE c[i]]

bucket(self, key) == self.directory \o Hash_call(self.addressing, key)

\* a has_key that asks the index alone
Dictionary_has_key_indexed(f, c, self, key) ==
    LET found(ix) ==
            IF ix.exc # "" THEN Raise(f, ix.cache, ix.exc)
            ELSE Return(f, ix.cache, Index_has_key(ix.idx, key))
        open(ir) ==
            IF ~exists(f, ir) THEN Return(f, c, FALSE)
            ELSE found(Dictionary_index(f, c, self, ir))
    IN open(bucket(self, key) \o <<"index">>)

Dictionary_has_key(f, c, self, key) ==
    LET found(r, ix) ==
            IF ix.exc # "" THEN Raise(f, ix.cache, ix.exc)
            ELSE IF Index_has_key(ix.idx, key)
                    /\ exists(f, r \o <<Index_getitem(ix.idx, key)>>)
            THEN Return(f, ix.cache, TRUE)
            ELSE Return(f, ix.cache, FALSE)
        open(r, ir) ==
            IF ~exists(f, ir) THEN Return(f, c, FALSE)
            ELSE found(r, Dictionary_index(f, c, self, ir))
        dir(r) == open(r, r \o <<"index">>)
    IN dir(bucket(self, key))

\* a refresh that takes the Index from _index and reads no file
Dictionary_refresh_cached(f, c, self, route) ==
    LET load(ix) ==
            IF ix.exc # "" THEN Raise(f, ix.cache, ix.exc)
            ELSE Return(f, ix.cache, <<>>)
    IN load(Dictionary_index(f, c, self, route))

Dictionary_refresh(f, c, self, route) ==
    LET load(ix) ==
            IF ix.exc # "" THEN Raise(f, ix.cache, ix.exc)
            ELSE IF ~IsFile(f, route) THEN Raise(f, ix.cache, "OSError")
            ELSE Return(f, CachePut(ix.cache, self, route, Index_load(readlines(f[route].data))), <<>>)
    IN load(Dictionary_index(f, c, self, route))

\* a route that does not write the index file
Dictionary_route_unsaved(f, c, self, key) ==
    LET save(r, ir, f1, ix, a) == Return(f1, CachePut(ix.cache, self, ir, a.idx), r \o <<a.r[1]>>)
        alloc(r, ir, f1, ix) ==
            IF ix.exc # "" THEN Raise(f1, ix.cache, ix.exc)
            ELSE save(r, ir, f1, ix, Index_allocate(ix.idx, <<key>>))
        index(r, ir, f1) == alloc(r, ir, f1, Dictionary_index(f1, c, self, ir))
        init(r, ir) ==
            IF ~exists(f, ir) /\ ~CanInit(f, ir) THEN Raise(f, c, "OSError")
            ELSE index(r, ir, IF ~exists(f, ir) THEN Path_init(f, ir, "file") ELSE f)
        dir(r) == init(r, r \o <<"index">>)
    IN dir(bucket(self, key))

Dictionary_route(f, c, self, key) ==
    LET save(r, ir, f1, ix, a) ==
            Return(Path_write(f1, ir, Index_store(a.idx)),
                   CachePut(ix.cache, self, ir, a.idx),
                   r \o <<a.r[1]>>)
        alloc(r, ir, f1, ix) ==
            IF ix.exc # "" THEN Raise(f1, ix.cache, ix.exc)
            ELSE save(r, ir, f1, ix, Index_allocate(ix.idx, <<key>>))
        index(r, ir, f1) == alloc(r, ir, f1, Dictionary_index(f1, c, self, ir))
        init(r, ir) ==
            IF ~exists(f, ir) /\ ~CanInit(f, ir) THEN Raise(f, c, "OSError")
            ELSE index(r, ir, IF ~exists(f, ir) THEN Path_init(f, ir, "file") ELSE f)
        dir(r) == init(r, r \o <<"index">>)
    IN dir(bucket(self, key))

\* the comprehension calls self.route(key, ...) with the name key unbound
Dictionary_allocate(f, c, self, keys) ==
    IF Len(keys) = 0 THEN Return(f, c, <<>>) ELSE Raise(f, c, "NameError")

\* value is the instance returned; the addressing argument is <<>> for
\* None and <<h>> for the Hash h
Dictionary_subdictionary(f, c, self, key, addressing, id) ==
    LET at(r) ==
            IF r.exc # "" THEN r
            ELSE Return(IF ~exists(r.fs, r.value) THEN Path_init(r.fs, r.value, "directory") ELSE r.fs,
                        r.cache,
                        [id |-> id,
                         addressing |-> IF Len(addressing) = 0 THEN self.addressing ELSE addressing[1],
                         directory |-> r.value])
    IN at(Dictionary_route(f, c, self, key))

Dictionary_setitem(f, c, self, key, value) ==
    LET write(r) ==
            IF r.exc # "" THEN r
            ELSE IF ~CanWrite(r.fs, r.value) THEN Raise(r.fs, r.cache, "OSError")
            ELSE Return(Path_write(r.fs, r.value, value), r.cache, <<>>)
    IN write(Dictionary_route(f, c, self, key))

\* with self.route(key).open('rb') as f: return f.read()
read_route(f, c, self, key) ==
    LET read(r) ==
            IF r.exc # "" THEN r
            ELSE IF ~IsFile(r.fs, r.value) THEN Raise(r.fs, r.cache, "OSError")
            ELSE Return(r.fs, r.cache, r.fs[r.value].data)
    IN read(Dictionary_route(f, c, self, key))

Dictionary_getitem(f, c, self, key) ==
    LET has(h) ==
            IF h.exc # "" THEN h
            ELSE IF ~h.value THEN Raise(h.fs, h.cache, "KeyError")
            ELSE read_route(h.fs, h.cache, self, key)
    IN has(Dictionary_has_key(f, c, self, key))

Dictionary_get(f, c, self, key, fallback) ==
    LET has(h) ==
            IF h.exc # "" THEN h
            ELSE IF ~h.value THEN Return(h.fs, h.cache, fallback)
            ELSE read_route(h.fs, h.cache, self, key)
    IN has(Dictionary_has_key(f, c, self, key))

\* a delete that leaves the index and the entry file as they are
Dictionary_delitem_kept(f, c, self, key) ==
    LET find(ix) ==
            IF ix.exc # "" THEN Raise(f, ix.cache, ix.exc)
            ELSE IF ~Index_has_key(ix.idx, key) THEN Raise(f, ix.cache, "KeyError")
            ELSE Return(f, ix.cache, <<>>)
        open(ir) ==
            IF ~exists(f, ir) THEN Raise(f, c, "KeyError")
            ELSE find(Dictionary_index(f, c, self, ir))
    IN open(bucket(self, key) \o <<"index">>)

\* a delete that returns when the index does not hold the key
Dictionary_delitem_silent(f, c, self, key) ==
    LET unlink(er, f1, c1) ==
            IF exists(f1, er) THEN Return(Path_void(f1, er), c1, <<>>)
            ELSE Raise(f1, c1, "KeyError")
        remove(r, ir, ix, entry, d) ==
            unlink(r \o <<entry>>,
                   Path_write(f, ir, Index_store(d.idx)),
                   CachePut(ix.cache, self, ir, d.idx))
        find(r, ir, ix) ==
            IF ix.exc # "" THEN Raise(f, ix.cache, ix.exc)
            ELSE IF ~Index_has_key(ix.idx, key) THEN Return(f, ix.cache, <<>>)
            ELSE remove(r, ir, ix, Index_getitem(ix.idx, key), Index_delete(ix.idx, key))
        open(r, ir) ==
            IF ~exists(f, ir) THEN Raise(f, c, "KeyError")
            ELSE find(r, ir, Dictionary_index(f, c, self, ir))
        dir(r) == open(r, r \o <<"index">>)
    IN dir(bucket(self, key))

Dictionary_delitem(f, c, self, key) ==
    LET unlink(er, f1, c1) ==
            IF exists(f1, er) THEN Return(Path_void(f1, er), c1, <<>>)
            ELSE Raise(f1, c1, "KeyError")
        remove(r, ir, ix, entry, d) ==
            unlink(r \o <<entry>>,
                   Path_write(f, ir, Index_store(d.idx)),
                   CachePut(ix.cache, self, ir, d.idx))
        find(r, ir, ix) ==
            IF ix.exc # "" THEN Raise(f, ix.cache, ix.exc)
            ELSE IF ~Index_has_key(ix.idx, key) THEN Raise(f, ix.cache, "KeyError")
            ELSE remove(r, ir, ix, Index_getitem(ix.idx, key), Index_delete(ix.idx, key))
        open(r, ir) ==
            IF ~exists(f, ir) THEN Raise(f, c, "KeyError")
            ELSE find(r, ir, Dictionary_index(f, c, self, ir))
        dir(r) == open(r, r \o <<"index">>)
    IN dir(bucket(self, key))

\* pop(key) without a fallback
Dictionary_pop(f, c, self, key) ==
    LET del(g, d) == IF d.exc # "" THEN d ELSE Return(d.fs, d.cache, g.value)
        got(g) ==
            IF g.exc # "" THEN g
            ELSE del(g, Dictionary_delitem(g.fs, g.cache, self, key))
        has(h) ==
            IF h.exc # "" THEN h
            ELSE IF ~h.value THEN Raise(h.fs, h.cache, "KeyError")
            ELSE got(Dictionary_getitem(h.fs, h.cache, self, key))
    IN has(Dictionary_has_key(f, c, self, key))

\* a clear that removes nothing
Dictionary_clear_kept(f, c, self) == Return(f, c, <<>>)

Dictionary_clear(f, c, self) ==
    LET init(f1) ==
            IF ~CanDictionary_init(f1, self.directory) THEN Raise(f1, c, "OSError")
            ELSE Return(Dictionary_init(f1, self.addressing, self.directory), c, <<>>)
    IN init(Path_void(f, self.directory))

\* all the orders in which a directory listing may give the set S
Orders(S) == {o \in [1..Cardinality(S) -> S] : \A i, j \in 1..Cardinality(S) : o[i] = o[j] => i = j}

\* a walk that lists the first directory of the queue and no other
walk_flat(f, q) ==
    IF Len(q) = 0 THEN {<<>>}
    ELSE {LET found == SelectSeq(o, LAMBDA x : exists(f, x \o <<"index">>))
          IN [i \in 1..Len(found) |-> found[i] \o <<"index">>]
          : o \in Orders(subdirectories(f, Head(q)))}

\* a walk that goes on below the directories that hold an index
RECURSIVE walk_deep(_, _)
walk_deep(f, q) ==
    IF Len(q) = 0 THEN {<<>>}
    ELSE UNION {
        LET found == SelectSeq(o, LAMBDA x : exists(f, x \o <<"index">>))
        IN {[i \in 1..Len(found) |-> found[i] \o <<"index">>] \o w : w \in walk_deep(f, Tail(q) \o o)}
        : o \in Orders(subdirectories(f, Head(q)))}

\* the walk of keys and references: the sequences of index files it can
\* visit, q being the queue of directories still to list
RECURSIVE walk(_, _)
walk(f, q) ==
    IF Len(q) = 0 THEN {<<>>}
    ELSE UNION {
        LET found == SelectSeq(o, LAMBDA x : exists(f, x \o <<"index">>))
            container == SelectSeq(o, LAMBDA x : ~exists(f, x \o <<"index">>))
        IN {[i \in 1..Len(found) |-> found[i] \o <<"index">>] \o w : w \in walk(f, Tail(q) \o container)}
        : o \in Orders(subdirectories(f, Head(q)))}

\* list(self.keys()) for one order of visit
RECURSIVE Dictionary_keys(_, _, _, _)
Dictionary_keys(f, c, self, visit) ==
    IF Len(visit) = 0 THEN Return(f, c, <<>>)
    ELSE LET yield(ix, rest) ==
                 IF ix.exc # "" THEN Raise(f, ix.cache, ix.exc)
                 ELSE IF rest.exc # "" THEN rest
                 ELSE Return(f, rest.cache, DictKeys(ix.idx._map) \o rest.value)
             more(ix) == yield(ix, Dictionary_keys(f, ix.cache, self, Tail(visit)))
         IN more(Dictionary_index(f, c, self, visit[1]))

\* ------------------------------------------------------------------------
\* The state machine
\* ------------------------------------------------------------------------
\* the fallback given to get
sentinel == <<52, 52, 52>>

VARIABLES
    fs,     \* the file system below the directory that holds the store
    cache,  \* the lru_cache of Dictionary._index
    dicts,  \* the Dictionary instances constructed so far, by id
    model   \* per instance, what its caller did so far (history, read by no method)

vars == <<fs, cache, dicts, model>>

\* The history of an instance:
\*   hist[k]  <<"stored", v>> when d[k] = v completed and no later set,
\*            delete, pop or clear involved k;
\*            <<"removed">> when a del d[k] or pop(k) succeeded and k was not
\*            set again;
\*            <<"cleared">> when k was stored at the time of a clear and was
\*            not set again;
\*            <<>> otherwise
\*   voided   the keys that were stored at the time of a clear and that no
\*            call has stored or routed since
\*   plain    <<S>> while the caller has only stored values (d[k] = v) and
\*            deleted keys with success (del d[k]), has_key and keys aside, S
\*            being the keys stored and not deleted since; <<>> once any other
\*            call was made
NoHistory == [hist |-> [k \in Key |-> <<"untouched">>], plain |-> <<{}>>, voided |-> {}]

Stored(g, k) == Len(g.hist[k]) = 2

NotPlain(g) == [g EXCEPT !.plain = <<>>]

\* a call of route(key) ends the time in which the instance has not
\* touched the key
Touch(g, key) == [g EXCEPT !.hist[key] = IF @ = <<"untouched">> THEN <<>> ELSE @]

History(g, op, key, value, r) ==
    CASE op = "setitem" ->
            IF r.exc = ""
            THEN [hist |-> [g.hist EXCEPT ![key] = <<"stored", value>>],
                  plain |-> IF Len(g.plain) = 0 THEN <<>> ELSE <<g.plain[1] \cup {key}>>]
            ELSE [hist |-> [g.hist EXCEPT ![key] = <<>>], plain |-> <<>>]
      [] op = "delitem" ->
            IF r.exc = ""
            THEN [hist |-> [g.hist EXCEPT ![key] = <<"removed">>],
                  plain |-> IF Len(g.plain) = 0 THEN <<>> ELSE <<g.plain[1] \ {key}>>]
            ELSE [hist |-> [g.hist EXCEPT ![key] = IF Stored(g, key) THEN <<>> ELSE @],
                  plain |-> <<>>]
      [] op = "pop" ->
            IF r.exc = ""
            THEN [hist |-> [g.hist EXCEPT ![key] = <<"removed">>], plain |-> <<>>]
            ELSE IF r.exc = "KeyError"
            THEN [hist |-> [g.hist EXCEPT ![key] = IF Stored(g, key) THEN <<>> ELSE @],
                  plain |-> <<>>]
            ELSE [hist |-> [g.hist EXCEPT ![key] = <<>>], plain |-> <<>>]
      [] op = "clear" ->
            [hist |-> [k \in Key |-> IF Stored(g, k) THEN <<"cleared">> ELSE g.hist[k]],
             plain |-> <<>>]
      [] op = "subdictionary" ->
            [hist |-> [g.hist EXCEPT ![key] = <<>>], plain |-> <<>>]
      [] op \in {"has_key", "keys"} -> IF r.exc = "" THEN g ELSE NotPlain(g)
      [] op = "route" -> NotPlain(Touch(g, key))
      [] op = "getitem" -> NotPlain(IF r.exc = "KeyError" THEN g ELSE Touch(g, key))
      [] op = "get" -> NotPlain(IF r.exc = "" /\ r.value = sentinel THEN g ELSE Touch(g, key))
      [] OTHER -> NotPlain(g)

\* the call of another instance that removes the root of this one takes
\* its values with it
Uprooted(g, f, f1, d) ==
    IF exists(f, d.directory) /\ ~exists(f1, d.directory)
    THEN [hist |-> [k \in Key |-> IF Stored(g, k) THEN <<>> ELSE g.hist[k]], plain |-> <<>>]
    ELSE g

\* the keys that a call leaves voided: clear adds the keys stored, a call
\* that routes its key takes the key out
Voided(g, op, key, r) ==
    CASE op = "clear" -> g.voided \cup {k \in Key : Stored(g, k)}
      [] op \in {"setitem", "route", "subdictionary"} -> g.voided \ {key}
      [] op \in {"getitem", "pop"} ->
            IF r.exc = "KeyError" THEN g.voided ELSE g.voided \ {key}
      [] op = "get" ->
            IF r.exc = "" /\ r.value = sentinel THEN g.voided ELSE g.voided \ {key}
      [] OTHER -> g.voided

Since(h, voided) == [hist |-> h.hist, plain |-> h.plain, voided |-> voided]

Init ==
    LET created(r) ==
            /\ fs = r.fs
            /\ cache = r.cache
            /\ dicts = <<r.value>>
            /\ model = <<NoHistory>>
    IN created(Dictionary_create(<<>> :> DirNode, 1, RootAddressing, <<"d1">>))

\* no bucket counter beyond the bound
Bounded(r) == \A i \in 1..Len(r.cache) : r.cache[i].idx.counter <= MaxCounter

Done(op, self, key, value, r) ==
    /\ Bounded(r)
    /\ fs' = r.fs
    /\ cache' = r.cache
    /\ model' = [i \in 1..Len(dicts) |->
                    IF i = self.id
                    THEN Since(History(model[i], op, key, value, r),
                               Voided(model[i], op, key, r))
                    ELSE Since(Uprooted(model[i], fs, r.fs, dicts[i]), model[i].voided)]
                 \o (IF op = "subdictionary" /\ r.exc = "" THEN <<NoHistory>> ELSE <<>>)
    /\ dicts' = IF op = "subdictionary" /\ r.exc = "" THEN Append(dicts, r.value) ELSE dicts

SetItem(self, key, value) ==
    Done("setitem", self, key, value, Dictionary_setitem(fs, cache, self, key, value))

GetItem(self, key) ==
    Done("getitem", self, key, <<>>, Dictionary_getitem(fs, cache, self, key))

Get(self, key) ==
    Done("get", self, key, <<>>, Dictionary_get(fs, cache, self, key, sentinel))

HasKey(self, key) ==
    Done("has_key", self, key, <<>>, Dictionary_has_key(fs, cache, self, key))

DelItem(self, key) ==
    Done("delitem", self, key, <<>>, Dictionary_delitem(fs, cache, self, key))

Pop(self, key) ==
    Done("pop", self, key, <<>>, Dictionary_pop(fs, cache, self, key))

Route(self, key) ==
    Done("route", self, key, <<>>, Dictionary_route(fs, cache, self, key))

Clear(self) ==
    Done("clear", self, <<>>, <<>>, Dictionary_clear(fs, cache, self))

Keys(self) ==
    \E visit \in walk(fs, <<self.directory>>) :
        Done("keys", self, <<>>, <<>>, Dictionary_keys(fs, cache, self, visit))

Refresh(self, key) ==
    Done("refresh", self, key, <<>>,
         Dictionary_refresh(fs, cache, self, bucket(self, key) \o <<"index">>))

Allocate(self, keys) ==
    Done("allocate", self, keys, <<>>, Dictionary_allocate(fs, cache, self, keys))

\* one instance per root: subdictionary is not called again for a root
\* that an instance already has
Subdictionary(self, key, addressing) ==
    LET returned(r) ==
            /\ Len(dicts) < 1 + MaxSubs
            /\ r.exc = "" => \A i \in 1..Len(dicts) : dicts[i].directory # r.value.directory
            /\ Done("subdictionary", self, key, <<>>, r)
    IN returned(Dictionary_subdictionary(fs, cache, self, key, addressing, Len(dicts) + 1))

\* Other Dictionary instances of the process load indexes through the same
\* class-level cache until the j least recently used entries of the
\* instances above have been discarded.
Evict(j) ==
    /\ j \in 1..Len(cache)
    /\ cache' = SubSeq(cache, j + 1, Len(cache))
    /\ UNCHANGED <<fs, dicts, model>>

\* One Dictionary, created by Dictionary.create, and every method
Next ==
    \/ \E key \in Key, value \in Value : SetItem(dicts[1], key, value)
    \/ \E key \in Key : GetItem(dicts[1], key)
    \/ \E key \in Key : Get(dicts[1], key)
    \/ \E key \in Key : HasKey(dicts[1], key)
    \/ \E key \in Key : DelItem(dicts[1], key)
    \/ \E key \in Key : Pop(dicts[1], key)
    \/ \E key \in Key : Route(dicts[1], key)
    \/ Clear(dicts[1])
    \/ Keys(dicts[1])
    \/ \E key \in Key : Refresh(dicts[1], key)
    \/ \E key \in Key : Allocate(dicts[1], <<key>>)
    \/ \E j \in 1..Len(cache) : Evict(j)

Spec == Init /\ [][Next]_vars

\* the keys under which the Dictionary holds or stores, and the key its
\* subdictionaries store
ParentKey == {<<97>>, <<10>>}

SubKey == {<<80>>}

\* the key is the key of a subdictionary: an instance has the route of the
\* key as its root
HoldsSub(self, key) ==
    LET names(r, idx) ==
            /\ Index_has_key(idx, key)
            /\ \E j \in 1..Len(dicts) : dicts[j].directory = r \o <<Index_getitem(idx, key)>>
        dir(r) ==
            /\ IsFile(fs, r \o <<"index">>)
            /\ names(r, Index_load(readlines(fs[r \o <<"index">>].data)))
    IN dir(bucket(self, key))

\* A Dictionary and the subdictionaries it returns, each a Dictionary used
\* through its own instance; the subdictionaries stay in place: the parent
\* neither stores under their keys, nor deletes them, nor clears
NextSub ==
    \/ \E key \in ParentKey, addressing \in SubAddressing : Subdictionary(dicts[1], key, addressing)
    \/ \E key \in ParentKey, value \in Value :
          ~HoldsSub(dicts[1], key) /\ SetItem(dicts[1], key, value)
    \/ \E i \in 2..Len(dicts) : \E key \in SubKey, value \in Value : SetItem(dicts[i], key, value)
    \/ \E i \in 2..Len(dicts) : \E key \in SubKey : DelItem(dicts[i], key)
    \/ \E i \in 2..Len(dicts) : Clear(dicts[i])
    \/ \E i \in 1..Len(dicts) : Keys(dicts[i])

SpecSub == Init /\ [][NextSub]_vars

\* ------------------------------------------------------------------------
\* What a caller observes in a state
\* ------------------------------------------------------------------------
\* has_key(k) is true and d[k] returns v
Present(f, c, d, k, v) ==
    LET h == Dictionary_has_key(f, c, d, k)
        g == Dictionary_getitem(f, c, d, k)
    IN h.exc = "" /\ h.value = TRUE /\ g.exc = "" /\ g.value = v

\* has_key(k) is false, d[k] raises KeyError and get(k, sentinel) returns sentinel
Absent(f, c, d, k) ==
    LET h == Dictionary_has_key(f, c, d, k)
        g == Dictionary_getitem(f, c, d, k)
        l == Dictionary_get(f, c, d, k, sentinel)
    IN h.exc = "" /\ h.value = FALSE /\ g.exc = "KeyError" /\ l.exc = "" /\ l.value = sentinel

\* the index of the bucket of k as its file on disk gives it
DiskIndex(f, d, k) == Index_load(readlines(f[bucket(d, k) \o <<"index">>].data))

Indexed(f, d, k) ==
    /\ IsFile(f, bucket(d, k) \o <<"index">>)
    /\ Index_has_key(DiskIndex(f, d, k), k)

\* the path of the entry file the index on disk names for k
EntryPath(f, d, k) == bucket(d, k) \o <<Index_getitem(DiskIndex(f, d, k), k)>>

\* the hash file of the root
HashFile(f, d) == f[d.directory \o <<"hash">>]

\* what has_key(k) and get(k, sentinel) answer, and what keys() can yield
Observe(f, c, d, k) ==
    LET h == Dictionary_has_key(f, c, d, k)
        g == Dictionary_get(f, c, d, k, sentinel)
    IN [has |-> h.exc = "" /\ h.value, exc |-> g.exc, value |-> g.value]

KeysOf(f, c, d) ==
    {LET r == Dictionary_keys(f, c, d, visit) IN <<r.exc, Range(r.value)>>
     : visit \in walk(f, <<d.directory>>)}

\* ------------------------------------------------------------------------
\* C1: once d[k] = v has completed, has_key(k) is true and d[k] returns v in
\* every state until the next set, delete or pop of k or the next clear.
\* ------------------------------------------------------------------------
C1_SetThenGet ==
    \A k \in Key :
        Stored(model[1], k) => Present(fs, cache, dicts[1], k, model[1].hist[k][2])

\* two keys of one bucket are stored with different values
C1_Witness ==
    \E k1, k2 \in Key :
        /\ k1 # k2
        /\ bucket(dicts[1], k1) = bucket(dicts[1], k2)
        /\ Stored(model[1], k1) /\ Stored(model[1], k2)
        /\ model[1].hist[k1][2] # model[1].hist[k2][2]

\* ------------------------------------------------------------------------
\* C2: once del d[k] has succeeded, has_key(k) is false, d[k] raises KeyError
\* and get(k, sentinel) returns sentinel in every state until k is set again.
\* ------------------------------------------------------------------------
C2_DeleteThenAbsent ==
    \A k \in Key :
        model[1].hist[k] = <<"removed">> => Absent(fs, cache, dicts[1], k)

\* a key was deleted and routed again since, and another key of its bucket
\* is still stored
C2_Witness ==
    \E k1, k2 \in Key :
        /\ k1 # k2
        /\ bucket(dicts[1], k1) = bucket(dicts[1], k2)
        /\ model[1].hist[k1] = <<"removed">>
        /\ Indexed(fs, dicts[1], k1)
        /\ Stored(model[1], k2)

\* ------------------------------------------------------------------------
\* C3: del d[k] raises KeyError for every key for which has_key(k) is false
\* (never set, no index file in its bucket, or removed before), and a delete
\* that follows a delete of the same key that succeeded raises KeyError too.
\* ------------------------------------------------------------------------
C3_DeleteAbsentRaises ==
    \A k \in Key :
        LET h == Dictionary_has_key(fs, cache, dicts[1], k)
            d == Dictionary_delitem(fs, cache, dicts[1], k)
        IN /\ (h.exc = "" /\ h.value = FALSE) => d.exc = "KeyError"
           /\ d.exc = "" => Dictionary_delitem(d.fs, d.cache, dicts[1], k).exc = "KeyError"

\* a key was removed by a delete, the index file of its bucket is still
\* there, and deleting it again raises KeyError
C3_Witness ==
    \E k \in Key :
        /\ model[1].hist[k] = <<"removed">>
        /\ IsFile(fs, bucket(dicts[1], k) \o <<"index">>)
        /\ Dictionary_delitem(fs, cache, dicts[1], k).exc = "KeyError"

\* ------------------------------------------------------------------------
\* C4: a clear leaves has_key(k) false for every key, the hash file as it
\* was, naming the addressing of the instance, and a store that takes a new
\* d[k] = v and reads it back; a key that was stored when clear was called
\* has has_key(k) false in every state until it is set again.
\* ------------------------------------------------------------------------
C4_ClearThenUsable ==
    LET d == dicts[1]
        c == Dictionary_clear(fs, cache, d)
    IN /\ c.exc = ""
       /\ \A k \in Key : Absent(c.fs, c.cache, d, k)
       /\ IsFile(fs, d.directory \o <<"hash">>)
       /\ HashFile(c.fs, d) = HashFile(fs, d)
       /\ Dictionary_open(c.fs, d.directory) = [exc |-> "", addressing |-> d.addressing]
       /\ \A k \in Key, v \in Value :
             LET s == Dictionary_setitem(c.fs, c.cache, d, k, v)
             IN s.exc = "" /\ Present(s.fs, s.cache, d, k, v)
       /\ \A k \in Key :
             model[1].hist[k] = <<"cleared">> => Absent(fs, cache, d, k)

\* a key that was stored before a clear is absent while another key of its
\* bucket was stored after the clear
C4_Witness ==
    \E k1, k2 \in Key :
        /\ k1 # k2
        /\ bucket(dicts[1], k1) = bucket(dicts[1], k2)
        /\ model[1].hist[k1] = <<"cleared">>
        /\ Stored(model[1], k2)

\* ------------------------------------------------------------------------
\* C5: on a Dictionary that has only seen d[k] = v and successful del d[k]
\* since it was created, keys() yields exactly the keys stored and not
\* deleted since, each once, whatever the order of the directory listings.
\* ------------------------------------------------------------------------
C5_KeysExact ==
    Len(model[1].plain) = 1 =>
        \A visit \in walk(fs, <<dicts[1].directory>>) :
            LET r == Dictionary_keys(fs, cache, dicts[1], visit)
            IN /\ r.exc = ""
               /\ Range(r.value) = model[1].plain[1]
               /\ Len(r.value) = Cardinality(model[1].plain[1])

\* keys of two buckets are stored, one bucket holding two of them, after a
\* delete
C5_Witness ==
    /\ Len(model[1].plain) = 1
    /\ Cardinality(model[1].plain[1]) = 2
    /\ \E k1, k2 \in model[1].plain[1] : bucket(dicts[1], k1) # bucket(dicts[1], k2)
    /\ \E k \in Key : model[1].hist[k] = <<"removed">>

\* ------------------------------------------------------------------------
\* C6: has_key(k) raises nothing; it is true only if the index file of the
\* bucket exists, holds k, and the entry file it names for k exists; when
\* the index holds k and the entry file is missing, has_key(k) is false and
\* get(k, sentinel) returns sentinel.
\* ------------------------------------------------------------------------
C6_HasKeyNeedsFile ==
    \A k \in Key :
        LET d == dicts[1]
            h == Dictionary_has_key(fs, cache, d, k)
            g == Dictionary_get(fs, cache, d, k, sentinel)
        IN /\ h.exc = ""
           /\ h.value => (Indexed(fs, d, k) /\ exists(fs, EntryPath(fs, d, k)))
           /\ (Indexed(fs, d, k) /\ ~exists(fs, EntryPath(fs, d, k)))
                 => (~h.value /\ g.exc = "" /\ g.value = sentinel)

\* the index holds a key whose entry file does not exist
C6_Witness ==
    \E k \in Key : Indexed(fs, dicts[1], k) /\ ~exists(fs, EntryPath(fs, dicts[1], k))

\* ------------------------------------------------------------------------
\* C7: route(k) returns a path p and leaves the index file of the bucket
\* mapping k to the last name of p; when the index file held k already,
\* p is the path it named and the counter and the pairs of the index file
\* are unchanged.
\* ------------------------------------------------------------------------
C7_RoutePersists ==
    \A k \in Key :
        LET d == dicts[1]
            r == Dictionary_route(fs, cache, d, k)
        IN /\ r.exc = ""
           /\ Indexed(r.fs, d, k)
           /\ r.value = EntryPath(r.fs, d, k)
           /\ Indexed(fs, d, k) =>
                 /\ r.value = EntryPath(fs, d, k)
                 /\ DiskIndex(r.fs, d, k).counter = DiskIndex(fs, d, k).counter
                 /\ Range(DiskIndex(r.fs, d, k)._map) = Range(DiskIndex(fs, d, k)._map)

\* route was called for a key that was never stored: the index file holds
\* it, beside a stored key, and no entry file exists for it
C7_Witness ==
    \E k1, k2 \in Key :
        /\ k1 # k2
        /\ bucket(dicts[1], k1) = bucket(dicts[1], k2)
        /\ model[1].hist[k1] = <<>>
        /\ Indexed(fs, dicts[1], k1)
        /\ ~exists(fs, EntryPath(fs, dicts[1], k1))
        /\ Stored(model[1], k2)

\* ------------------------------------------------------------------------
\* C8: allocate(keys) returns a mapping from each key to its route, every
\* route being an existing file and the key being in the index file of its
\* bucket.
\* ------------------------------------------------------------------------
C8_AllocateBacked ==
    \A k \in Key :
        LET d == dicts[1]
            r == Dictionary_allocate(fs, cache, d, <<k>>)
        IN /\ r.exc = ""
           /\ Len(r.value) = 1
           /\ r.value[1][1] = k
           /\ IsFile(r.fs, r.value[1][2])
           /\ Indexed(r.fs, d, k)
           /\ r.value[1][2] = EntryPath(r.fs, d, k)

\* ------------------------------------------------------------------------
\* C9: a Dictionary and the subdictionaries it has returned are independent
\* of one another.  In every state and for every instance, whatever the
\* other instances have done since: a key the instance stored is present
\* with the value it stored; a key it deleted or cleared, and a key it never
\* passed to route, is absent; keys() yields no key the instance never
\* passed to route, and on an instance that has only seen d[k] = v and
\* del d[k] exactly the keys it holds.  A subdictionary that stores under
\* a key of its parent changes neither what has_key and get answer for
\* that key in another instance nor what keys() yields there.
\* ------------------------------------------------------------------------
C9_SubIndependent ==
    /\ \A i \in 1..Len(dicts) :
        /\ \A k \in Key :
              /\ Stored(model[i], k) => Present(fs, cache, dicts[i], k, model[i].hist[k][2])
              /\ model[i].hist[k] \in {<<"removed">>, <<"cleared">>, <<"untouched">>}
                    => Absent(fs, cache, dicts[i], k)
        /\ \A visit \in walk(fs, <<dicts[i].directory>>) :
              LET r == Dictionary_keys(fs, cache, dicts[i], visit)
              IN /\ r.exc = ""
                 /\ \A n \in 1..Len(r.value) : model[i].hist[r.value[n]] # <<"untouched">>
                 /\ Len(model[i].plain) = 1 =>
                       /\ Range(r.value) = model[i].plain[1]
                       /\ Len(r.value) = Cardinality(model[i].plain[1])
    /\ \A i \in 2..Len(dicts) : \A k \in ParentKey, v \in Value :
          LET r == Dictionary_setitem(fs, cache, dicts[i], k, v)
          IN \A j \in 1..Len(dicts) \ {i} :
                /\ Observe(r.fs, r.cache, dicts[j], k) = Observe(fs, cache, dicts[j], k)
                /\ KeysOf(r.fs, r.cache, dicts[j]) = KeysOf(fs, cache, dicts[j])

\* two subdictionaries of one Dictionary: one holds a key that the other
\* has deleted and that the parent never touched
C9_Witness ==
    \E i, j \in 2..Len(dicts) : \E k \in Key :
        /\ i # j
        /\ Stored(model[i], k)
        /\ model[j].hist[k] = <<"removed">>
        /\ model[1].hist[k] = <<"untouched">>

\* ------------------------------------------------------------------------
\* C10: when subdictionary(key, addressing) returns, Dictionary.open on the
\* root of the instance returned succeeds and gives the addressing of that
\* instance.
\* ------------------------------------------------------------------------
C10_SubRootOpens ==
    \A k \in ParentKey, a \in SubAddressing :
        LET r == Dictionary_subdictionary(fs, cache, dicts[1], k, a, Len(dicts) + 1)
        IN r.exc = "" =>
              Dictionary_open(r.fs, r.value.directory)
                 = [exc |-> "", addressing |-> r.value.addressing]

\* ------------------------------------------------------------------------
\* Two Dictionary instances over one root: the first from Dictionary.create,
\* the second from Dictionary.open of the same directory.  Their calls
\* alternate in any order, each one completing before the next begins.
\* ------------------------------------------------------------------------
\* two keys that the root addressing puts into one bucket
BucketKey == {<<97>>, <<10>>}

\* the value the two instances store
BucketValue == {<<118>>}

InitTwo ==
    LET opened(r, o) ==
            /\ o.exc = ""
            /\ fs = r.fs
            /\ cache = r.cache
            /\ dicts = <<r.value, [id |-> 2, addressing |-> o.addressing, directory |-> <<"d1">>]>>
            /\ model = <<NoHistory, NoHistory>>
        created(r) == opened(r, Dictionary_open(r.fs, <<"d1">>))
    IN created(Dictionary_create(<<>> :> DirNode, 1, RootAddressing, <<"d1">>))

NextTwo ==
    \/ \E i \in 1..2 : \E key \in BucketKey, value \in BucketValue : SetItem(dicts[i], key, value)
    \/ \E i \in 1..2 : \E key \in BucketKey : HasKey(dicts[i], key)
    \/ \E i \in 1..2 : \E key \in BucketKey : DelItem(dicts[i], key)
    \/ \E i \in 1..2 : \E key \in BucketKey : Refresh(dicts[i], key)

SpecTwo == InitTwo /\ [][NextTwo]_vars

\* ------------------------------------------------------------------------
\* C11: two instances over the same root, used one call at a time: a key
\* stored through one instance, which the other instance has neither stored,
\* deleted nor routed, is present with that value through the other
\* instance, and a key deleted through one is absent through the other.
\* ------------------------------------------------------------------------
C11_SharedRoot ==
    \A i \in 1..2 : \A j \in (1..2) \ {i} : \A k \in BucketKey :
        model[j].hist[k] = <<"untouched">> =>
            /\ Stored(model[i], k) =>
                  Present(fs, cache, dicts[j], k, model[i].hist[k][2])
            /\ model[i].hist[k] = <<"removed">> => Absent(fs, cache, dicts[j], k)

\* ------------------------------------------------------------------------
\* Hash.__call__ on its own: a Dictionary is created with one of the Hash
\* configurations below and its addressing is called with one key, as
\* route does (self.addressing(key)); model[1] records the key and what each
\* call returned.
\* ------------------------------------------------------------------------
\* the calls made for one key
MaxCalls == 2

\* Hash(), Hash(depth=1) and Hash('fnv1a_64', depth, length)
HashConfig ==
    {Hash("fnv1a_64", 2, None), Hash("fnv1a_64", 1, None), Hash("fnv1a_64", 2, 4),
     Hash("fnv1a_64", 1, 2), Hash("fnv1a_64", 4, 16), Hash("fnv1a_64", 3, 16),
     Hash("fnv1a_64", 3, 4), Hash("fnv1a_64", 5, 16)}

\* b'', b'a', b'\n', b'P', b'\x00', b'aa', b'ab' and b'key'
HashKey == {<<>>, <<97>>, <<10>>, <<80>>, <<0>>, <<97, 97>>, <<97, 98>>, <<107, 101, 121>>}

InitHash ==
    \E h \in HashConfig, key \in HashKey :
        LET created(r) ==
                /\ fs = r.fs
                /\ cache = r.cache
                /\ dicts = <<r.value>>
                /\ model = <<[key |-> key, calls |-> <<>>]>>
        IN created(Dictionary_create(<<>> :> DirNode, 1, h, <<"d1">>))

\* self.addressing(key)
Address(self) ==
    /\ Len(model[self.id].calls) < MaxCalls
    /\ model' = [model EXCEPT ![self.id].calls = Append(@, Hash_call(self.addressing, model[self.id].key))]
    /\ UNCHANGED <<fs, cache, dicts>>

NextHash == Address(dicts[1])

SpecHash == InitHash /\ [][NextHash]_vars

\* sum(map(len, path))
RECURSIVE TotalLength(_)
TotalLength(path) == IF Len(path) = 0 THEN 0 ELSE Len(path[1]) + TotalLength(Tail(path))

\* the hexadecimal digest of the key of the state
Digest == Hash_digest(dicts[1].addressing, model[1].key)

\* ''.join(path)
RECURSIVE Joined(_)
Joined(path) == IF Len(path) = 0 THEN "" ELSE path[1] \o Joined(Tail(path))

\* depth does not divide the digest length of the configuration
Uneven(a) == a.length % a.depth # 0

\* ------------------------------------------------------------------------
\* C12: every call Hash(k) returns exactly depth segments whose lengths sum
\* to the digest length of the configuration, and every call with the same
\* key returns the same segments, also for a key whose digest value begins
\* with a zero digit.
\* ------------------------------------------------------------------------
C12_HashSegments ==
    \A n \in 1..Len(model[1].calls) :
        /\ Len(model[1].calls[n]) = dicts[1].addressing.depth
        /\ TotalLength(model[1].calls[n]) = dicts[1].addressing.length
        /\ model[1].calls[n] = model[1].calls[1]

MaxIndexCounter == 3

\* b'', b'\n\ta' and b'a\n'
IndexKey == {<<>>, <<10, 9, 97>>, <<97, 10>>}

\* the arguments of allocate: one key, or two keys which may be the same
IndexKeys == {<<k>> : k \in IndexKey} \cup {<<k, l>> : k \in IndexKey, l \in IndexKey}

IndexPath == <<"index">>

Called(op, keys, before, r, exc) == [op |-> op, keys |-> keys, before |-> before, r |-> r, exc |-> exc]

InitIndex ==
    /\ fs = <<>> :> DirNode
    /\ cache = <<>>
    /\ dicts = <<>>
    /\ model = <<[idx |-> Index_init, issued |-> {}, fresh |-> TRUE,
                  last |-> Called("__init__", <<>>, Index_init, <<>>, "")]>>

\* idx.allocate(keys, str)
IndexAllocate(keys) ==
    LET done(g, a) ==
            /\ a.idx.counter <= MaxIndexCounter
            /\ model' = <<[g EXCEPT !.idx = a.idx,
                                    !.issued = @ \cup {a.r[i] : i \in {j \in 1..Len(keys) :
                                                    ~Index_has_key(g.idx, keys[j])}},
                                    !.last = Called("allocate", keys, g.idx, a.r, "")]>>
            /\ UNCHANGED <<fs, cache, dicts>>
        call(g) == done(g, Index_allocate(g.idx, keys))
    IN call(model[1])

\* idx.delete(key): dict.pop raises KeyError for a key that is not there
IndexDelete(key) ==
    LET done(g, a) ==
            /\ model' = <<[g EXCEPT !.idx = a.idx,
                                    !.last = Called("delete", <<key>>, g.idx, <<a.r>>, "")]>>
            /\ UNCHANGED <<fs, cache, dicts>>
        raised(g) ==
            /\ model' = <<[g EXCEPT !.last = Called("delete", <<key>>, g.idx, <<>>, "KeyError")]>>
            /\ UNCHANGED <<fs, cache, dicts>>
        call(g) == IF Index_has_key(g.idx, key) THEN done(g, Index_delete(g.idx, key)) ELSE raised(g)
    IN call(model[1])

\* with open('wb') as f: idx.store(f.write)
IndexStore ==
    LET call(g) ==
            /\ fs' = Path_write(fs, IndexPath, Index_store(g.idx))
            /\ model' = <<[g EXCEPT !.last = Called("store", <<>>, g.idx, <<>>, "")]>>
            /\ UNCHANGED <<cache, dicts>>
    IN call(model[1])

\* ir.init('file'), as route does for a bucket without an index file
IndexCreate ==
    /\ ~exists(fs, IndexPath)
    /\ fs' = Path_init(fs, IndexPath, "file")
    /\ UNCHANGED <<cache, dicts, model>>

\* with open('rb') as f: idx.load(f.readlines())
IndexLoad ==
    LET call(g) ==
            /\ IsFile(fs, IndexPath)
            /\ model' = <<[g EXCEPT !.idx = Index_load(readlines(fs[IndexPath].data)),
                                    !.fresh = @ /\ fs[IndexPath].data = Index_store(g.idx),
                                    !.last = Called("load", <<>>, g.idx, <<>>, "")]>>
            /\ UNCHANGED <<fs, cache, dicts>>
    IN call(model[1])

NextIndex ==
    \/ \E keys \in IndexKeys : IndexAllocate(keys)
    \/ \E key \in IndexKey : IndexDelete(key)
    \/ IndexStore
    \/ IndexCreate
    \/ IndexLoad

SpecIndex == InitIndex /\ [][NextIndex]_vars

\* the (key, identifier) pairs of an Index
Pairs(idx) == Range(idx._map)

\* the orders in which the entries of a table can be written
Rewritten(idx) == {[idx EXCEPT !._map = o] : o \in Orders(Range(idx._map))}

\* ------------------------------------------------------------------------
\* C13: for the Index of every state, store followed by load of the bytes
\* written, read as lines that keep their terminator, gives the same
\* (key, identifier) pairs and the same counter, in whatever order the
\* entries are written, also for the empty key and keys with line
\* terminators and tabs; a load that has read the output of store has left
\* pairs and counter as they were; load of no lines gives counter 0 and an
\* empty table.
\* ------------------------------------------------------------------------
C13_StoreLoadRoundTrip ==
    /\ \A w \in Rewritten(model[1].idx) :
          LET l == Index_load(readlines(Index_store(w)))
          IN /\ Pairs(l) = Pairs(model[1].idx)
             /\ Len(l._map) = Len(model[1].idx._map)
             /\ l.counter = model[1].idx.counter
    /\ (model[1].last.op = "load" /\ fs[IndexPath].data = Index_store(model[1].last.before)) =>
          /\ Pairs(model[1].idx) = Pairs(model[1].last.before)
          /\ model[1].idx.counter = model[1].last.before.counter
    /\ Index_load(readlines(<<>>)) = [counter |-> 0, _map |-> <<>>]

\* load has read the output of store for a table of the three keys
C13_Witness ==
    /\ model[1].last.op = "load"
    /\ fs[IndexPath].data = Index_store(model[1].last.before)
    /\ {p[1] : p \in Pairs(model[1].idx)} = IndexKey
    /\ model[1].idx.counter = 3

\* in allocate(keys), the positions of the keys that the Index did not
\* have, each at its first occurrence
Inserted(before, keys) ==
    {j \in 1..Len(keys) : /\ ~Index_has_key(before, keys[j])
                          /\ \A i \in 1..(j - 1) : keys[i] # keys[j]}

\* ------------------------------------------------------------------------
\* C14: allocate returns one identifier per key, in the order of the keys;
\* for a key the Index does not have it adds one to the counter and
\* returns the formatted counter, for a key it has, from before the call
\* or from earlier in the call, it returns the identifier the key has; the
\* counter advances by the number of keys inserted and every other entry
\* stays as it was.
\* ------------------------------------------------------------------------
C14_AllocateIdempotent ==
    model[1].last.op = "allocate" =>
        LET before == model[1].last.before
            keys == model[1].last.keys
            r == model[1].last.r
            new == Inserted(before, keys)
            first(i) == CHOOSE j \in 1..i : keys[j] = keys[i] /\ \A h \in 1..(j - 1) : keys[h] # keys[i]
        IN /\ Len(r) = Len(keys)
           /\ \A i \in 1..Len(keys) :
                 r[i] = IF Index_has_key(before, keys[i]) THEN Index_getitem(before, keys[i])
                        ELSE filename(before.counter + Cardinality({j \in new : j <= first(i)}))
           /\ model[1].idx.counter = before.counter + Cardinality(new)
           /\ Pairs(model[1].idx) = Pairs(before) \cup {<<keys[j], r[j]>> : j \in new}
           /\ Len(model[1].idx._map) = Len(before._map) + Cardinality(new)

\* allocate was given a key twice that the Index did not have, and the
\* Index had given out identifiers before
C14_Witness ==
    /\ model[1].last.op = "allocate"
    /\ Len(model[1].last.keys) = 2
    /\ model[1].last.keys[1] = model[1].last.keys[2]
    /\ ~Index_has_key(model[1].last.before, model[1].last.keys[1])
    /\ model[1].last.before.counter = 2
    /\ model[1].last.r = <<"3", "3">>

\* the identifier as a number (the default formatter is str)
Number(identifier) == int(identifier)

\* ------------------------------------------------------------------------
\* C15: as long as load has only read what store gives for the Index at
\* that time, no call makes the counter smaller, the identifiers that
\* insert has returned are exactly 1..counter, so every identifier of the
\* table is at most the counter, a new identifier is greater than every
\* earlier one, and the identifier of a deleted key is not issued again.
\* ------------------------------------------------------------------------
C15_CounterMonotonic ==
    model[1].fresh =>
        /\ model[1].idx.counter >= model[1].last.before.counter
        /\ {Number(x) : x \in model[1].issued} = 1..model[1].idx.counter
        /\ \A p \in Pairs(model[1].idx) : p[2] \in model[1].issued
        /\ model[1].last.op = "allocate" =>
              \A j \in Inserted(model[1].last.before, model[1].last.keys) :
                  Number(model[1].last.r[j]) > model[1].last.before.counter

\* a key was inserted after the key that had the identifier 1 was deleted
\* and the Index was stored
C15_Witness ==
    /\ model[1].fresh
    /\ model[1].last.op = "allocate"
    /\ Inserted(model[1].last.before, model[1].last.keys) # {}
    /\ model[1].last.before.counter = 2
    /\ \A p \in Pairs(model[1].last.before) : p[2] # "1"
    /\ IsFile(fs, IndexPath)
    /\ fs[IndexPath].data = Index_store(model[1].last.before)

\* what a caller and the disk show of a call: the files afterwards, the
\* exception and the value
Outcome(r) == [fs |-> r.fs, exc |-> r.exc, value |-> r.value]

\* ------------------------------------------------------------------------
\* C16: in every state that set, get, has_key, delete, route, clear, keys
\* and evictions lead to, each of these calls returns the same, raises the
\* same and leaves the same files, index files included, as the call made
\* with nothing cached, where _index parses the index file afresh.
\* ------------------------------------------------------------------------
C16_CacheTransparent ==
    \A k \in Key :
        /\ Outcome(Dictionary_route(fs, cache, dicts[1], k)) = Outcome(Dictionary_route(fs, <<>>, dicts[1], k))
        /\ Outcome(Dictionary_has_key(fs, cache, dicts[1], k)) = Outcome(Dictionary_has_key(fs, <<>>, dicts[1], k))
        /\ Outcome(Dictionary_getitem(fs, cache, dicts[1], k)) = Outcome(Dictionary_getitem(fs, <<>>, dicts[1], k))
        /\ Outcome(Dictionary_delitem(fs, cache, dicts[1], k)) = Outcome(Dictionary_delitem(fs, <<>>, dicts[1], k))
        /\ \A v \in Value :
              Outcome(Dictionary_setitem(fs, cache, dicts[1], k, v))
                  = Outcome(Dictionary_setitem(fs, <<>>, dicts[1], k, v))

\* the index file of the bucket that the keys of BucketKey share
BucketIndex(self) == bucket(self, <<97>>) \o <<"index">>

\* the Index that the instance holds for the index file, if it holds one
Held(c, self, route) == c[CachePos(c, self, route)].idx

\* the instance holds an Index for the bucket of the key that is not what
\* the index file says: the other instance has written the file since
Stale(c, self, key) ==
    /\ Cached(c, self, bucket(self, key) \o <<"index">>)
    /\ IsFile(fs, bucket(self, key) \o <<"index">>)
    /\ Held(c, self, bucket(self, key) \o <<"index">>) # DiskIndex(fs, self, key)

\* ------------------------------------------------------------------------
\* C17: when refresh(index path) returns, in whatever state the two
\* instances have left cache and files, the Index the instance holds for
\* the bucket is the parse of the index file on disk, no file has changed,
\* and the next has_key, route or delete through the instance does what it
\* does with an Index parsed afresh from the file.
\* ------------------------------------------------------------------------
C17_RefreshRereads ==
    \A i \in 1..2 :
        LET ir == BucketIndex(dicts[i])
            r == Dictionary_refresh(fs, cache, dicts[i], ir)
        IN r.exc = "" =>
              /\ r.fs = fs
              /\ Cached(r.cache, dicts[i], ir)
              /\ Held(r.cache, dicts[i], ir) = Index_load(readlines(fs[ir].data))
              /\ \A k \in BucketKey :
                    /\ Outcome(Dictionary_has_key(fs, r.cache, dicts[i], k))
                          = Outcome(Dictionary_has_key(fs, <<>>, dicts[i], k))
                    /\ Outcome(Dictionary_route(fs, r.cache, dicts[i], k))
                          = Outcome(Dictionary_route(fs, <<>>, dicts[i], k))
                    /\ Outcome(Dictionary_delitem(fs, r.cache, dicts[i], k))
                          = Outcome(Dictionary_delitem(fs, <<>>, dicts[i], k))

\* the first instance holds an Index with counter 1 for the bucket while
\* the file, written by the second instance, has counter 2 and both keys
C17_Witness ==
    /\ Stale(cache, dicts[1], <<97>>)
    /\ Held(cache, dicts[1], bucket(dicts[1], <<97>>) \o <<"index">>).counter = 1
    /\ DiskIndex(fs, dicts[1], <<97>>).counter = 2
    /\ Len(DiskIndex(fs, dicts[1], <<97>>)._map) = 2
    /\ model[2].hist[<<97>>] # <<"untouched">>

\* ------------------------------------------------------------------------
\* Two writers on one bucket without exclusion.  Each writer has its own
\* Dictionary instance over the root and calls route, d[k] = v and del d[k];
\* a call is a sequence of steps as the code of route (442-461),
\* __setitem__ (477-483) and __delitem__ (515-543) orders them, and the
\* steps of the two writers interleave in any order.  model[i] is the
\* position of writer i in its call and what it has seen:
\*   pc       "idle", or the step of the call that was taken last
\*   op, key, value   the call in progress
\*   entry    the identifier that the Index gave for the key
\*   before   the index file as it was parsed when the call began
\*   files    the files when the call began
\*   count    the calls begun so far
\*   alone    the other writer has taken no step since the call began
\*   sound    the Index that _index gave to the call was the parse of the
\*            index file as the call found it
\*   last     the last call that ended: [op, key, exc, entry]
\* written is kept in model[3]: the writer that wrote the index file last
\* and the Index it stored.
\* ------------------------------------------------------------------------
\* the calls of one writer
MaxOps == 2

Writers == {1, 2}

Ended(op, key, exc, entry) == [op |-> op, key |-> key, exc |-> exc, entry |-> entry]

Idle == [pc |-> "idle", op |-> "", key |-> <<>>, value |-> <<>>, entry |-> "",
         before |-> Index_init, files |-> <<>> :> DirNode, count |-> 0, alone |-> TRUE,
         sound |-> TRUE,
         last |-> Ended("", <<>>, "", "")]

InitRace ==
    LET opened(r, o) ==
            /\ o.exc = ""
            /\ fs = r.fs
            /\ cache = r.cache
            /\ dicts = <<r.value, [id |-> 2, addressing |-> o.addressing, directory |-> <<"d1">>]>>
            /\ model = <<Idle, Idle, [by |-> 0, idx |-> Index_init]>>
        created(r) == opened(r, Dictionary_open(r.fs, <<"d1">>))
    IN created(Dictionary_create(<<>> :> DirNode, 1, RootAddressing, <<"d1">>))

\* the step of writer i leaves g as its position and w as the last write;
\* the other writer is no longer alone
Step(i, g, w) ==
    model' = [j \in 1..3 |->
                 IF j = i THEN g
                 ELSE IF j = 3 THEN w
                 ELSE [model[j] EXCEPT !.alone = FALSE]]

\* the call of writer i ends
End(g, exc) ==
    [g EXCEPT !.pc = "idle", !.last = Ended(g.op, g.key, exc, g.entry)]

\* path = self.addressing(key); r = self.directory.extend(path); ir = r / 'index';
\* route: if not ir.exists(): ir.init('file')
\* __delitem__: if not ir.exists(): raise KeyError(key)
Begin(i, op, key, value) ==
    LET go(g, ir) ==
            /\ model[i].pc = "idle"
            /\ model[i].count < MaxOps
            /\ IF op = "delitem"
               THEN /\ fs' = fs
                    /\ Step(i, (IF exists(fs, ir) THEN g ELSE End(g, "KeyError")), model[3])
               ELSE /\ exists(fs, ir) \/ CanInit(fs, ir)
                    /\ fs' = IF exists(fs, ir) THEN fs ELSE Path_init(fs, ir, "file")
                    /\ Step(i, g, model[3])
            /\ UNCHANGED <<cache, dicts>>
        start(ir) ==
            go([model[i] EXCEPT !.pc = "begun", !.op = op, !.key = key, !.value = value,
                                !.entry = "", !.count = @ + 1, !.alone = TRUE, !.files = fs,
                                !.before = IF IsFile(fs, ir)
                                           THEN Index_load(readlines(fs[ir].data))
                                           ELSE Index_init],
               ir)
    IN start(bucket(dicts[i], key) \o <<"index">>)

\* idx = self._index(ir);  __delitem__: if not idx.has_key(key): raise KeyError(key)
Load(i) ==
    LET loaded(g, ix) ==
            /\ cache' = ix.cache
            /\ Step(i, (IF ix.exc # "" THEN End(g, ix.exc)
                        ELSE IF g.op = "delitem" /\ ~Index_has_key(ix.idx, g.key)
                        THEN End(g, "KeyError")
                        ELSE [g EXCEPT !.pc = "loaded"]), model[3])
            /\ UNCHANGED <<fs, dicts>>
        seen(g, ix) == loaded([g EXCEPT !.sound = ix.exc = "" /\ ix.idx = g.before], ix)
        at(g, ir) == g.pc = "begun" /\ seen(g, Dictionary_index(fs, cache, dicts[i], ir))
    IN at(model[i], bucket(dicts[i], model[i].key) \o <<"index">>)

\* route: entry = idx.allocate((key,), filename)[0]
\* __delitem__: entry = idx[key]; idx.delete(key)
Mutate(i) ==
    LET changed(g, ir, a) ==
            /\ a.idx.counter <= MaxCounter
            /\ cache' = CachePut(cache, dicts[i], ir, a.idx)
            /\ Step(i, [g EXCEPT !.pc = "mutated", !.entry = a.r], model[3])
            /\ UNCHANGED <<fs, dicts>>
        first(a) == [idx |-> a.idx, r |-> a.r[1]]
        on(g, ir, idx) ==
            changed(g, ir, IF g.op = "delitem" THEN Index_delete(idx, g.key)
                           ELSE first(Index_allocate(idx, <<g.key>>)))
        at(g, ir) == g.pc = "loaded" /\ on(g, ir, Held(cache, dicts[i], ir))
    IN at(model[i], bucket(dicts[i], model[i].key) \o <<"index">>)

\* a step that stores the Index of route and not the Index of a delete
Write_unsaved(i) ==
    LET at(g) ==
            /\ g.pc = "mutated"
            /\ fs' = IF g.op = "delitem" THEN fs
                     ELSE Path_write(fs, BucketIndex(dicts[i]),
                                     Index_store(Held(cache, dicts[i], BucketIndex(dicts[i]))))
            /\ Step(i, (IF g.op = "route" THEN End(g, "")
                        ELSE [g EXCEPT !.pc = IF g.op = "setitem" THEN "routed" ELSE "written"]),
                    model[3])
            /\ UNCHANGED <<cache, dicts>>
    IN at(model[i])

\* the entries of the first Index, then those of the second for the keys
\* the first does not have, under the greater counter
Merged(a, b) ==
    [counter |-> IF a.counter > b.counter THEN a.counter ELSE b.counter,
     _map |-> a._map \o SelectSeq(b._map, LAMBDA e : ~DictHas(a._map, e[1]))]

\* a step that reads the index file again and adds its entries to the file
Write_merged(i) ==
    LET wrote(g, ir, idx) ==
            /\ fs' = Path_write(fs, ir, Index_store(Merged(Index_load(readlines(fs[ir].data)), idx)))
            /\ Step(i, (IF g.op = "route" THEN End(g, "")
                        ELSE [g EXCEPT !.pc = IF g.op = "setitem" THEN "routed" ELSE "written"]),
                    [by |-> i, idx |-> idx])
            /\ UNCHANGED <<cache, dicts>>
        at(g, ir) == g.pc = "mutated" /\ wrote(g, ir, Held(cache, dicts[i], ir))
    IN at(model[i], BucketIndex(dicts[i]))

\* with ir.open('wb') as f: idx.store(f.write);  route: return r / entry
Write(i) ==
    LET wrote(g, ir, idx) ==
            /\ fs' = Path_write(fs, ir, Index_store(idx))
            /\ Step(i, (IF g.op = "route" THEN End(g, "")
                        ELSE [g EXCEPT !.pc = IF g.op = "setitem" THEN "routed" ELSE "written"]),
                    [by |-> i, idx |-> idx])
            /\ UNCHANGED <<cache, dicts>>
        at(g, ir) == g.pc = "mutated" /\ wrote(g, ir, Held(cache, dicts[i], ir))
    IN at(model[i], bucket(dicts[i], model[i].key) \o <<"index">>)

\* __setitem__: with self.route(key).open('wb') as f: f.write(value)
Store(i) ==
    LET at(g, er) ==
            /\ g.pc = "routed"
            /\ fs' = Path_write(fs, er, g.value)
            /\ Step(i, End(g, ""), model[3])
            /\ UNCHANGED <<cache, dicts>>
    IN at(model[i], bucket(dicts[i], model[i].key) \o <<model[i].entry>>)

\* __delitem__: er = r / entry; if er.exists(): er.void() else: raise KeyError(key)
Void(i) ==
    LET at(g, er) ==
            /\ g.pc = "written"
            /\ fs' = IF exists(fs, er) THEN Path_void(fs, er) ELSE fs
            /\ Step(i, End(g, (IF exists(fs, er) THEN "" ELSE "KeyError")), model[3])
            /\ UNCHANGED <<cache, dicts>>
    IN at(model[i], bucket(dicts[i], model[i].key) \o <<model[i].entry>>)

NextRace ==
    \/ \E i \in Writers : \E key \in BucketKey : Begin(i, "route", key, <<>>)
    \/ \E i \in Writers : \E key \in BucketKey, value \in BucketValue : Begin(i, "setitem", key, value)
    \/ \E i \in Writers : \E key \in BucketKey : Begin(i, "delitem", key, <<>>)
    \/ \E i \in Writers : Load(i)
    \/ \E i \in Writers : Mutate(i)
    \/ \E i \in Writers : Write(i)
    \/ \E i \in Writers : Store(i)
    \/ \E i \in Writers : Void(i)

SpecRace == InitRace /\ [][NextRace]_vars

\* the files of the state are those the call of writer i found, but for
\* the paths in the set
SameFilesBut(i, paths) ==
    /\ DOMAIN fs \cup paths = DOMAIN model[i].files \cup paths
    /\ \A p \in DOMAIN fs \ paths : fs[p] = model[i].files[p]

\* the index file of the state is the Index the call of writer i found,
\* without the key of the call
IndexWithoutKey(i) ==
    LET g == model[i]
        disk == Index_load(readlines(fs[BucketIndex(dicts[i])].data))
    IN /\ IsFile(fs, BucketIndex(dicts[i]))
       /\ disk.counter = g.before.counter
       /\ ~Index_has_key(disk, g.key)
       /\ Pairs(disk) = Pairs(g.before) \ {<<g.key, Index_getitem(g.before, g.key)>>}

\* writer i is in, or has ended, a del d[k] in which no other writer took a
\* step, for a key that the bucket index had
Deleting(i) ==
    /\ model[i].alone
    /\ model[i].sound
    /\ model[i].op = "delitem"
    /\ Index_has_key(model[i].before, model[i].key)

\* the entry file the index named for the key when the call began
EntryBefore(i) == bucket(dicts[i], model[i].key) \o <<Index_getitem(model[i].before, model[i].key)>>

\* ------------------------------------------------------------------------
\* C18: a del d[k] for a key of the bucket index, with no other writer
\* between its steps: once the index file is rewritten and before the entry
\* file is looked at, the index on disk is without k, keeps counter and the
\* entries of the other keys, and every other file is as before; when the
\* entry file is missing the call then raises KeyError and leaves that
\* index on disk; when the entry file exists the call returns, the entry
\* file is gone and all other files are as before.
\* ------------------------------------------------------------------------
C18_DeleteIndexFirst ==
    \A i \in Writers :
        Deleting(i) =>
            /\ model[i].pc = "written" =>
                  /\ IndexWithoutKey(i)
                  /\ SameFilesBut(i, {BucketIndex(dicts[i])})
            /\ model[i].pc = "idle" =>
                  /\ model[i].last.op = "delitem"
                  /\ IndexWithoutKey(i)
                  /\ IF exists(model[i].files, EntryBefore(i))
                     THEN /\ model[i].last.exc = ""
                          /\ ~exists(fs, EntryBefore(i))
                          /\ SameFilesBut(i, {BucketIndex(dicts[i]), EntryBefore(i)})
                     ELSE /\ model[i].last.exc = "KeyError"
                          /\ SameFilesBut(i, {BucketIndex(dicts[i])})

\* a del d[k] has raised KeyError for a key that the index had and whose
\* entry file was missing, in a bucket whose index holds the other key
C18_Witness ==
    /\ Deleting(1)
    /\ model[1].pc = "idle"
    /\ model[1].last.exc = "KeyError"
    /\ ~exists(model[1].files, EntryBefore(1))
    /\ Len(model[1].before._map) = 2
    /\ Len(DiskIndex(fs, dicts[1], model[1].key)._map) = 1

\* ------------------------------------------------------------------------
\* C19: whatever the interleaving of the steps of the two writers, the
\* index file, once written, is the whole Index of the writer that wrote
\* last, as that writer held it: what another writer has stored in the file
\* since that Index was loaded is not in it, and no writer is told.  The
\* witness is the lost update: each writer has made one route, neither has
\* seen an exception, and the file lacks the key of the first.
\* ------------------------------------------------------------------------
C19_LastWriterWins ==
    model[3].by # 0 =>
        /\ IsFile(fs, BucketIndex(dicts[1]))
        /\ fs[BucketIndex(dicts[1])].data = Index_store(model[3].idx)
        /\ Pairs(Index_load(readlines(fs[BucketIndex(dicts[1])].data))) = Pairs(model[3].idx)

\* both writers have returned from one route each, for different keys, and
\* the index file has the key of the second writer only; both keys were
\* given the identifier 1
C19_Witness ==
    /\ \A i \in Writers :
          /\ model[i].pc = "idle"
          /\ model[i].count = 1
          /\ model[i].last.op = "route"
          /\ model[i].last.exc = ""
          /\ model[i].last.entry = "1"
    /\ model[1].last.key # model[2].last.key
    /\ model[3].by = 2
    /\ ~Indexed(fs, dicts[1], model[1].last.key)
    /\ Indexed(fs, dicts[2], model[2].last.key)

\* what the store shows of a key: has_key, the outcome of d[k], and the
\* identifier that the index file of its bucket records (<<>> for none)
Shown(f, c, d, k) ==
    LET h == Dictionary_has_key(f, c, d, k)
        g == Dictionary_getitem(f, c, d, k)
    IN [has |-> <<h.exc, h.value>>,
        item |-> <<g.exc, g.value>>,
        entry |-> IF Indexed(f, d, k) THEN <<Index_getitem(DiskIndex(f, d, k), k)>> ELSE <<>>]

\* the call with the outcome r, made in the state, has left every key but
\* k as the store showed it
Framed(k, r) ==
    \A other \in Key \ {k} :
        Shown(r.fs, r.cache, dicts[1], other) = Shown(fs, cache, dicts[1], other)

\* ------------------------------------------------------------------------
\* C21: in every state of the one Dictionary, d[k] = v, del d[k], pop(k)
\* and route(k) leave has_key, the outcome of d[k'] and the identifier the
\* index file records the same for every other key k', of the same bucket
\* or not, also when the call for k raises KeyError.
\* ------------------------------------------------------------------------
C21_OtherKeysUntouched ==
    \A k \in Key :
        /\ \A v \in Value : Framed(k, Dictionary_setitem(fs, cache, dicts[1], k, v))
        /\ Framed(k, Dictionary_delitem(fs, cache, dicts[1], k))
        /\ Framed(k, Dictionary_pop(fs, cache, dicts[1], k))
        /\ Framed(k, Dictionary_route(fs, cache, dicts[1], k))

RECURSIVE Dictionary_references(_, _, _, _)
\* references() (library.py 343-362), on the index paths that the walk
\* visits: the pairs of a key and the route of its entry
Dictionary_references(f, c, self, visit) ==
    IF Len(visit) = 0 THEN Return(f, c, <<>>)
    ELSE LET items(x, m) == [i \in 1..Len(m) |-> <<m[i][1], x \o <<m[i][2]>>>>]
             yield(ix, rest) ==
                 IF ix.exc # "" THEN Raise(f, ix.cache, ix.exc)
                 ELSE IF rest.exc # "" THEN rest
                 ELSE Return(f, rest.cache,
                             items(ButLast(visit[1]), ix.idx._map) \o rest.value)
             more(ix) == yield(ix, Dictionary_references(f, ix.cache, self, Tail(visit)))
         IN more(Dictionary_index(f, c, self, visit[1]))

\* ------------------------------------------------------------------------
\* C22: a key that was stored at the time of a clear() and that no call has
\* stored or routed since is yielded neither by keys() nor by references(),
\* whatever the order of the directory listings.
\* ------------------------------------------------------------------------
C22_ClearedNotListed ==
    \A visit \in walk(fs, <<dicts[1].directory>>) :
        LET ks == Dictionary_keys(fs, cache, dicts[1], visit)
            rs == Dictionary_references(fs, cache, dicts[1], visit)
        IN /\ \A n \in 1..Len(ks.value) : ks.value[n] \notin model[1].voided
           /\ \A n \in 1..Len(rs.value) : rs.value[n][1] \notin model[1].voided

\* the index files on disk
IndexFiles(f) == {p \in DOMAIN f : Len(p) > 0 /\ p[Len(p)] = "index" /\ IsFile(f, p)}

\* no identifier is recorded for two keys of the index
Injective(idx) ==
    \A m, n \in 1..Len(idx._map) : idx._map[m][2] = idx._map[n][2] => m = n

\* ------------------------------------------------------------------------
\* C23: in every state of the one Dictionary (set, get, route, delete, pop,
\* clear, keys, cache eviction; identifiers str(counter)), no index file on
\* disk records one identifier for two keys, and d[k] = v leaves the outcome
\* of d[k'] as it was for every other key k'.
\* ------------------------------------------------------------------------
C23_EntriesDistinct ==
    /\ \A p \in IndexFiles(fs) : Injective(Index_load(readlines(fs[p].data)))
    /\ \A k \in Key, v \in Value :
          LET s == Dictionary_setitem(fs, cache, dicts[1], k, v)
          IN \A other \in Key \ {k} :
                LET before == Dictionary_getitem(fs, cache, dicts[1], other)
                    after == Dictionary_getitem(s.fs, s.cache, dicts[1], other)
                IN after.exc = before.exc /\ after.value = before.value

\* after a clear, the index file of a bucket records a key stored before
\* the clear and a key stored since, with two identifiers
C23_Witness ==
    \E k1, k2 \in Key :
        /\ k1 # k2
        /\ bucket(dicts[1], k1) = bucket(dicts[1], k2)
        /\ k1 \in model[1].voided
        /\ Stored(model[1], k2)
        /\ Indexed(fs, dicts[1], k1)
        /\ Indexed(fs, dicts[1], k2)
        /\ EntryPath(fs, dicts[1], k1) # EntryPath(fs, dicts[1], k2)

====
